---- MODULE Spec2Model ----
(***************************************************************************)
(* A model of src/app.py: the CarPriceMLModel class (train, predict, save, *)
(* load and the preprocessing they share) and the module-level "load or    *)
(* train" start-up script.                                                  *)
(*                                                                         *)
(* Conventions.                                                            *)
(*  - A string of a categorical column is represented by its rank in       *)
(*    Python's string order, so that "<" on the model's values is the      *)
(*    order numpy.unique sorts by.                                         *)
(*  - A float is represented by an integer; a float division is the        *)
(*    integer quotient, and a division by 0.0 gives INF (numpy's inf).     *)
(*  - A Python object is a record with a "kind" field; None is NoneV.      *)
(***************************************************************************)
EXTENDS Integers, Sequences, FiniteSets, TLC

(* ------------------------------ bounds -------------------------------- *)
\* rows create_training_data generates (2000 in the source)
NSamples == 6
\* ticks of the wall clock (datetime.now) in one behaviour
MaxClock == 1
\* calls of the object's methods in one behaviour
MaxCalls == 3
\* the price estimates handed to the interval lie in -MaxPrice..MaxPrice
MaxPrice == 6
\* the mean absolute errors handed to the interval lie in 0..MaxMae
MaxMae == 4
\* rows of a corpus handed to preprocess in the encoder specification
MaxRows == 2
\* distinct strings a categorical column of such a corpus may hold
MaxVal == 3

(* ------------------------- values and helpers ------------------------- *)
NoneV == [kind |-> "None"]
EmptyDict == [c \in {} |-> NoneV]
INF == 999999999

Max2(a, b) == IF a >= b THEN a ELSE b
Abs(a) == IF a >= 0 THEN a ELSE -a
SetMin(S) == CHOOSE m \in S : \A x \in S : m <= x

RECURSIVE SumSeq(_)
SumSeq(s) == IF s = <<>> THEN 0 ELSE Head(s) + SumSeq(Tail(s))

Mean(s) == SumSeq(s) \div Len(s)

\* the integer square root, by bisection on lo..hi
RECURSIVE ISqrtBetween(_, _, _)
ISqrtBetween(n, lo, hi) ==
    IF lo >= hi THEN lo
    ELSE LET mid == (lo + hi + 1) \div 2
         IN IF mid * mid <= n THEN ISqrtBetween(n, mid, hi) ELSE ISqrtBetween(n, lo, mid - 1)
ISqrt(n) == ISqrtBetween(n, 0, 40000)

RECURSIVE SumSet(_)
SumSet(S) == IF S = {} THEN 0 ELSE LET e == CHOOSE e \in S : TRUE IN e + SumSet(S \ {e})

\* numpy.unique: the distinct values, sorted ascending
RECURSIVE Sorted(_)
Sorted(S) == IF S = {} THEN <<>> ELSE <<SetMin(S)>> \o Sorted(S \ {SetMin(S)})

Range(s) == {s[i] : i \in 1..Len(s)}
IndexOf(s, v) == CHOOSE i \in 1..Len(s) : s[i] = v

(* ----------------------- create_training_data ------------------------- *)
\* the vocabularies, in the order the source lists them, by rank:
\* Audi 1, BMW 2, Chevrolet 3, Ford 4, Honda 5, Hyundai 6, Mercedes 7,
\* Nissan 8, Toyota 9, Volkswagen 10
brands == <<9, 5, 2, 7, 1, 4, 3, 8, 10, 6>>
\* Diesel 1, Electric 2, Hybrid 3, Petrol 4
fuel_types == <<4, 1, 2, 3>>
\* Automatic 1, Manual 2
transmissions == <<2, 1>>
\* Convertible 1, Coupe 2, Hatchback 3, SUV 4, Sedan 5, Wagon 6
body_types == <<5, 4, 3, 2, 6, 1>>

base_price == 15000
brand_prices == <<14000, 15000, -1000, 0, 1500, 800, 18000, 500, 2000, 1200>>
body_prices == <<4000, 3000, 0, 5000, 2000, 1000>>
fuel_prices == <<2000, 8000, 4000, 0>>
price_floor == 5000

\* the price formula of the corpus, floored at 5000
LabelPrice(r, noise) ==
    Max2(base_price
         + (r.year - 2010) * 2000
         + r.horsepower * 50
         + r.engine_size * 3000
         + brand_prices[r.brand]
         + body_prices[r.body_type]
         + fuel_prices[r.fuel_type]
         + (IF r.transmission = 1 THEN 2000 ELSE 0)
         - r.mileage \div 10
         - r.previous_owners * 1500
         + noise,
         price_floor)

\* The i-th draw of the generator seeded with 42: a fixed sequence, the same
\* at every call (numpy.random.seed(42) opens create_training_data).
Draw(i, k, n) == ((((i * 13 + k * 7) \div 3) + i * k + ((i * i) \div 2)) % n) + 1

RawRow(i) ==
    [brand |-> brands[Draw(i, 1, 10)],
     year |-> 2004 + Draw(i, 2, 20),
     mileage |-> 1000 * Draw(i, 3, 9),
     fuel_type |-> fuel_types[Draw(i, 4, 4)],
     transmission |-> transmissions[Draw(i, 5, 2)],
     engine_size |-> Draw(i, 6, 5),
     horsepower |-> 79 + Draw(i, 7, 420),
     body_type |-> body_types[Draw(i, 8, 6)],
     doors |-> <<2, 4, 5>>[Draw(i, 9, 3)],
     previous_owners |-> Draw(i, 10, 5) - 1]

create_training_data(n) ==
    [i \in 1..n |-> RawRow(i) @@ [price |-> LabelPrice(RawRow(i), 1000 * (Draw(i, 11, 7) - 4))]]

\* the corpus train() generates at line 149
Corpus == create_training_data(NSamples)

(* -------------------------- engineer_features ------------------------- *)
FloatDiv(a, b) == IF b = 0 THEN INF ELSE a \div b

engineer_features(df, current_year) ==
    [i \in 1..Len(df) |->
        df[i] @@ [car_age |-> current_year - df[i].year,
                  mileage_per_year |-> FloatDiv(df[i].mileage, (current_year - df[i].year) + 1),
                  power_to_weight |-> FloatDiv(df[i].horsepower, df[i].engine_size)]]

(* ------------------------------ preprocess ---------------------------- *)
categorical_cols == <<"brand", "fuel_type", "transmission", "body_type">>

UnfittedEncoder == [kind |-> "LabelEncoder", fitted |-> FALSE, classes_ |-> <<>>]

\* the distinct values of a sequence, in the order of their first occurrence
RECURSIVE FirstSeen(_)
FirstSeen(values) ==
    IF values = <<>> THEN <<>>
    ELSE LET front == FirstSeen(SubSeq(values, 1, Len(values) - 1))
         IN IF values[Len(values)] \in Range(front) THEN front
            ELSE Append(front, values[Len(values)])

LabelEncoderFitFirstSeen(values) ==
    [kind |-> "LabelEncoder", fitted |-> TRUE, classes_ |-> FirstSeen(values)]

\* LabelEncoder.fit: classes_ = numpy.unique(values)
LabelEncoderFit(values) ==
    [kind |-> "LabelEncoder", fitted |-> TRUE, classes_ |-> Sorted(Range(values))]

\* LabelEncoder.transform of one known value: its zero-based position in classes_
LabelEncoderTransform(enc, v) == IndexOf(enc.classes_, v) - 1

Column(df, col) == [i \in 1..Len(df) |-> df[i][col]]
SetColumn(df, col, vals) == [i \in 1..Len(df) |-> [df[i] EXCEPT ![col] = vals[i]]]

\* the value line 137-139 substitutes before the transform
KnownOrFirst(enc, v) == IF v \in Range(enc.classes_) THEN v ELSE enc.classes_[1]

\* One pass of the loop of preprocess over categorical_cols[k..]:
\* the encoders and the frame after it, or the exception that ended it.
\* failAt = k makes the fit of column k raise (0: no injected failure).
RECURSIVE PreprocessFrom(_, _, _, _, _)
PreprocessFrom(k, df, encoders, is_training, failAt) ==
    IF k > Len(categorical_cols)
    THEN [ok |-> TRUE, exc |-> "", encoders |-> encoders, df |-> df]
    ELSE LET col == categorical_cols[k] IN
         IF is_training
         THEN IF failAt = k
              THEN [ok |-> FALSE, exc |-> "Exception",
                    encoders |-> (col :> UnfittedEncoder) @@ encoders, df |-> df]
              ELSE LET enc == LabelEncoderFit(Column(df, col))
                       out == [i \in 1..Len(df) |-> LabelEncoderTransform(enc, df[i][col])]
                   IN PreprocessFrom(k + 1, SetColumn(df, col, out),
                                     (col :> enc) @@ encoders, is_training, failAt)
         ELSE IF col \notin DOMAIN encoders
              THEN [ok |-> FALSE, exc |-> "KeyError", encoders |-> encoders, df |-> df]
              ELSE IF ~encoders[col].fitted
              THEN [ok |-> FALSE, exc |-> "AttributeError", encoders |-> encoders, df |-> df]
              ELSE LET enc == encoders[col]
                       out == [i \in 1..Len(df) |->
                                 LabelEncoderTransform(enc, KnownOrFirst(enc, df[i][col]))]
                   IN PreprocessFrom(k + 1, SetColumn(df, col, out),
                                     encoders, is_training, failAt)

preprocess(df, is_training, encoders, current_year, failAt) ==
    PreprocessFrom(1, engineer_features(df, current_year), encoders, is_training, failAt)

(* --------------------------- train_test_split ------------------------- *)
\* test_size = 0.2: ceil(0.2 n) rows are held out. The shuffle seeded with 42
\* is a fixed permutation; the model holds out the last rows.
NTest(n) == (n + 4) \div 5
TrainPart(s) == SubSeq(s, 1, Len(s) - NTest(Len(s)))
TestPart(s) == SubSeq(s, Len(s) - NTest(Len(s)) + 1, Len(s))

(* ----------------------------- StandardScaler ------------------------- *)
UnfittedScaler ==
    [kind |-> "StandardScaler", fitted |-> FALSE, mean_ |-> EmptyDict, scale_ |-> EmptyDict]

\* the column order of X: the corpus columns without price, then the
\* engineered ones
FeatureNames ==
    <<"brand", "year", "mileage", "fuel_type", "transmission", "engine_size",
      "horsepower", "body_type", "doors", "previous_owners",
      "car_age", "mileage_per_year", "power_to_weight">>

DropPrice(df) == [i \in 1..Len(df) |-> [c \in Range(FeatureNames) |-> df[i][c]]]

ColVar(X, c) ==
    LET m == Mean(Column(X, c))
    IN Mean([i \in 1..Len(X) |-> (X[i][c] - m) * (X[i][c] - m)])

\* fit: per column the mean and the standard deviation (a zero one becomes 1)
ScalerFit(X) ==
    [kind |-> "StandardScaler", fitted |-> TRUE,
     mean_ |-> [c \in Range(FeatureNames) |-> Mean(Column(X, c))],
     scale_ |-> [c \in Range(FeatureNames) |-> Max2(ISqrt(ColVar(X, c)), 1)]]

\* transform of one row, in hundredths
ScaleRow(sc, row) ==
    [c \in Range(FeatureNames) |-> ((row[c] - sc.mean_[c]) * 100) \div sc.scale_[c]]

HasInf(row) == \E c \in DOMAIN row : row[c] = INF

(* ---------------------- GradientBoostingRegressor --------------------- *)
\* GradientBoostingRegressor(...): constructed, not fitted
UnfittedGBR == [kind |-> "GBR", fitted |-> FALSE, init |-> 0, leaves |-> {}]

\* fit: the initial estimate is the mean target; the 200 depth-5 trees are
\* represented by what they converge to on the training rows, the target of
\* each row.
GBRFit(X, y) ==
    [kind |-> "GBR", fitted |-> TRUE, init |-> Mean(y),
     leaves |-> {<<X[i], y[i]>> : i \in 1..Len(X)}]

\* predict of one scaled row: the targets of the training rows it falls
\* with, the initial estimate where it falls with none
GBRPredict(m, xrow) ==
    LET hits == {p \in m.leaves : p[1] = xrow}
    IN IF hits = {} THEN m.init
       ELSE SumSet({p[2] : p \in hits}) \div Cardinality({p[2] : p \in hits})

(* -------------------------------- metrics ----------------------------- *)
mean_absolute_error(y, yp) == Mean([i \in 1..Len(y) |-> Abs(y[i] - yp[i])])

\* r2_score in hundredths (1.0 is 100); deviations are taken in hundreds of
\* dollars before squaring. A constant y_true scores 1.0 when the residual
\* is zero and 0.0 otherwise.
r2_score(y, yp) ==
    LET m == Mean(y)
        res == SumSeq([i \in 1..Len(y) |-> ((y[i] - yp[i]) \div 100) * ((y[i] - yp[i]) \div 100)])
        tot == SumSeq([i \in 1..Len(y) |-> ((y[i] - m) \div 100) * ((y[i] - m) \div 100)])
    IN IF tot = 0 THEN (IF res = 0 THEN 100 ELSE 0)
       ELSE 100 - ((100 * res) \div tot)

(* ------------------------------ timestamps ---------------------------- *)
\* datetime.now(): the clock counts years from BaseYear
BaseYear == 2025
CurrentYear(t) == BaseYear + t
IsoFormat(t) == [kind |-> "iso", t |-> t]
Unknown == [kind |-> "str", s |-> "Unknown"]

(* ------------------------- what train() computes ---------------------- *)
ScaleRows(sc, X) == [i \in 1..Len(X) |-> ScaleRow(sc, X[i])]

\* lines 173-181: the metrics of the fitted ensemble on the held-out rows
Evaluate(y_test, y_pred) ==
    [mae |-> mean_absolute_error(y_test, y_pred),
     r2 |-> r2_score(y_test, y_pred),
     accuracy |-> r2_score(y_test, y_pred)]

\* lines 165-181, given the fitted ensemble
FitMetrics(encoders, sc, gbr, X_test_scaled, y_test) ==
    [label_encoders |-> encoders,
     feature_names |-> [kind |-> "list", items |-> FeatureNames],
     scaler |-> sc,
     model |-> gbr,
     metrics |-> Evaluate(y_test,
                          [i \in 1..Len(X_test_scaled) |-> GBRPredict(gbr, X_test_scaled[i])])]

\* lines 162-181, given the fitted scaler
FitModel(encoders, sc, X_train, X_test, y_train, y_test) ==
    FitMetrics(encoders, sc, GBRFit(ScaleRows(sc, X_train), y_train),
               ScaleRows(sc, X_test), y_test)

\* lines 154-181, given the preprocessed frame
FitFrame(encoders, df) ==
    FitModel(encoders, ScalerFit(TrainPart(DropPrice(df))),
             TrainPart(DropPrice(df)), TestPart(DropPrice(df)),
             TrainPart(Column(df, "price")), TestPart(Column(df, "price")))

FitPreprocessed(pre) == FitFrame(pre.encoders, pre.df)

\* Every value train() assigns when nothing raises, at clock t.
TrainValues(t) == FitPreprocessed(preprocess(Corpus, TRUE, EmptyDict, CurrentYear(t), 0))

(* ------------------------------ the object ---------------------------- *)
VARIABLES
    model, scaler, label_encoders, feature_names, metrics,
    is_trained, model_version, last_trained,  \* the fields of ml_model
    disk,         \* the file at model_path
    clock,        \* datetime.now()
    result,       \* how the last call ended, and what it returned
    saved,        \* the fields save() last wrote to the file now on disk
    ncalls,       \* the method calls made so far
    succeeded,    \* a train() or load() of this object has returned
    pc,           \* the position of the start-up script
    startup_log,  \* the calls the start-up script has made, with their outcome
    arg,          \* the input of a function applied on its own
    reader,       \* a thread inside predict(): its position and what it read
    writer        \* a thread inside train() or load(): its position

fields == <<model, scaler, label_encoders, feature_names, metrics,
            is_trained, model_version, last_trained>>
env == <<disk, clock>>
hist == <<result, saved, ncalls, succeeded>>
start == <<pc, startup_log>>
conc == <<reader, writer>>
vars == <<fields, env, hist, start, arg, conc>>

\* the object as one value
Self ==
    [model |-> model, scaler |-> scaler, label_encoders |-> label_encoders,
     feature_names |-> feature_names, metrics |-> metrics, is_trained |-> is_trained,
     model_version |-> model_version, last_trained |-> last_trained]

\* __init__
NewObject ==
    [model |-> NoneV, scaler |-> UnfittedScaler, label_encoders |-> EmptyDict,
     feature_names |-> NoneV, metrics |-> EmptyDict, is_trained |-> FALSE,
     model_version |-> "1.0.0", last_trained |-> NoneV]

Raise(op, exc, self) == [op |-> op, ok |-> FALSE, exc |-> exc, value |-> NoneV, self |-> self]
Return(op, value, self) == [op |-> op, ok |-> TRUE, exc |-> "", value |-> value, self |-> self]

(* -------------------------------- train ------------------------------- *)
\* where a sub-step of train() raises: nowhere, in create_training_data, in
\* the fit of the col-th encoder, in scaler.fit_transform, in model.fit, or
\* in the metric computation
TrainFaults ==
    {[at |-> a, col |-> 0] : a \in {"none", "create", "scale", "fit", "metrics"}}
    \cup {[at |-> "encode", col |-> k] : k \in 1..Len(categorical_cols)}

\* The corpus is the same at every call, so what the sub-steps compute
\* depends on the clock alone: TrainValues at each time of the behaviour.
TrainCache == [t \in 0..(MaxClock + 1) |-> TrainValues(t)]

train(self, t, fault) ==
    IF fault.at = "create" THEN Raise("train", "Exception", self)
    ELSE
    LET pre == preprocess(Corpus, TRUE, self.label_encoders, CurrentYear(t), fault.col)
        s1 == [self EXCEPT !.label_encoders = pre.encoders]
    IN IF ~pre.ok THEN Raise("train", pre.exc, s1)
       ELSE
       LET s2 == [s1 EXCEPT !.feature_names = TrainCache[t].feature_names]
       IN \* fit() resets the scaler before it computes anything
          IF fault.at = "scale"
          THEN Raise("train", "Exception", [s2 EXCEPT !.scaler = UnfittedScaler])
          ELSE IF self.scaler.kind # "StandardScaler"
          THEN Raise("train", "AttributeError", s2)
          ELSE
          LET s3 == [s2 EXCEPT !.scaler = TrainCache[t].scaler]
          IN IF fault.at = "fit"
             THEN Raise("train", "Exception", [s3 EXCEPT !.model = UnfittedGBR])
             ELSE
             LET s4 == [s3 EXCEPT !.model = TrainCache[t].model]
             IN IF fault.at = "metrics" THEN Raise("train", "Exception", s4)
                ELSE Return("train", NoneV,
                            [s4 EXCEPT !.metrics = TrainCache[t].metrics,
                                       !.is_trained = TRUE,
                                       !.last_trained = IsoFormat(t)])

(* ------------------------------- predict ------------------------------ *)
ConfidenceIntervalUnclamped(price, mae) ==
    [lower |-> 100 * price - 196 * mae,
     upper |-> 100 * price + 196 * mae]

\* the band of lines 205-209, in hundredths of a dollar
ConfidenceInterval(price, mae) ==
    [lower |-> Max2(100 * price - 196 * mae, 0),
     upper |-> 100 * price + 196 * mae]

\* the is_training argument predict() passes to preprocess
PredictIsTrainingDefault == TRUE
PredictIsTraining == FALSE

\* lines 199-224: the body of predict() after the check of is_trained
predict_body(self, car_data, t) ==
    LET pre == preprocess(<<car_data>>, PredictIsTraining, self.label_encoders, CurrentYear(t), 0)
        s1 == [self EXCEPT !.label_encoders = pre.encoders]
    IN IF ~pre.ok THEN Raise("predict", pre.exc, s1)
       ELSE IF s1.scaler.kind # "StandardScaler" THEN Raise("predict", "AttributeError", s1)
       ELSE IF ~s1.scaler.fitted THEN Raise("predict", "NotFittedError", s1)
       ELSE IF HasInf(pre.df[1]) THEN Raise("predict", "ValueError", s1)
       ELSE IF s1.model.kind # "GBR" THEN Raise("predict", "AttributeError", s1)
       ELSE IF ~s1.model.fitted THEN Raise("predict", "NotFittedError", s1)
       ELSE IF "mae" \notin DOMAIN s1.metrics THEN Raise("predict", "KeyError", s1)
       ELSE
       LET price == GBRPredict(s1.model, ScaleRow(s1.scaler, pre.df[1]))
           confidence == ConfidenceInterval(price, s1.metrics.mae)
           current_year == CurrentYear(t)
       IN Return("predict",
                 [kind |-> "PredictionResult",
                  price |-> price,
                  confidence |-> confidence,
                  features |-> [car_age |-> current_year - car_data.year,
                                mileage_per_year |->
                                    car_data.mileage \div (current_year - car_data.year + 1),
                                power_to_weight |->
                                    car_data.horsepower \div car_data.engine_size],
                  accuracy |-> s1.metrics.accuracy,
                  mae |-> s1.metrics.mae],
                 s1)

predict_unchecked(self, car_data, t) == predict_body(self, car_data, t)

predict(self, car_data, t) ==
    IF ~self.is_trained THEN Raise("predict", "ValueError: Model not trained", self)
    ELSE predict_body(self, car_data, t)

(* ----------------------------- save and load -------------------------- *)
NoFile == [kind |-> "none"]
Garbage == [kind |-> "garbage"]
Pickle(data) == [kind |-> "pickle", data |-> data]

SnapshotWithoutTimestamp(self) ==
    [model |-> self.model, scaler |-> self.scaler,
     label_encoders |-> self.label_encoders, feature_names |-> self.feature_names,
     metrics |-> self.metrics, is_trained |-> self.is_trained,
     model_version |-> self.model_version]

\* model_data of save(): the dictionary pickled
SnapshotOf(self) ==
    [model |-> self.model, scaler |-> self.scaler,
     label_encoders |-> self.label_encoders, feature_names |-> self.feature_names,
     metrics |-> self.metrics, is_trained |-> self.is_trained,
     model_version |-> self.model_version, last_trained |-> self.last_trained]

\* where save() raises: nowhere, in open(), or in pickle.dump() with the file
\* already truncated
SaveFaults == {"none", "open", "dump"}

\* save(): the outcome and the file afterwards
save(self, file, fault) ==
    IF fault = "open" THEN [out |-> Raise("save", "OSError", self), file |-> file]
    ELSE IF fault = "dump" THEN [out |-> Raise("save", "PicklingError", self), file |-> Garbage]
    ELSE [out |-> Return("save", NoneV, self), file |-> Pickle(SnapshotOf(self))]

\* the keys load() reads with model_data[...], in the order it assigns them
MandatoryKeys ==
    <<"model", "scaler", "label_encoders", "feature_names", "metrics", "is_trained">>

\* the assignments of lines 261-266 from key k on, up to the first missing key
RECURSIVE LoadFrom(_, _, _)
LoadFrom(k, self, data) ==
    IF k > Len(MandatoryKeys) THEN [ok |-> TRUE, self |-> self]
    ELSE LET key == MandatoryKeys[k]
         IN IF key \notin DOMAIN data THEN [ok |-> FALSE, self |-> self]
            ELSE LoadFrom(k + 1, [self EXCEPT ![key] = data[key]], data)

\* model_data.get(key, default)
DictGet(data, key, default) == IF key \in DOMAIN data THEN data[key] ELSE default

load(self, file) ==
    IF file.kind = "none" THEN Raise("load", "FileNotFoundError", self)
    ELSE IF file.kind = "garbage" THEN Raise("load", "UnpicklingError", self)
    ELSE LET got == LoadFrom(1, self, file.data)
         IN IF ~got.ok THEN Raise("load", "KeyError", got.self)
            ELSE Return("load", NoneV,
                        [got.self EXCEPT
                            !.model_version = DictGet(file.data, "model_version", "1.0.0"),
                            !.last_trained = DictGet(file.data, "last_trained", Unknown)])

(* ------------------------------ environment --------------------------- *)
\* The snapshot an earlier deployment of this code left behind: trained the
\* year before BaseYear, under an older version string.
ForeignSnapshot ==
    SnapshotOf([TrainValues(-1) @@ NewObject EXCEPT
                    !.is_trained = TRUE,
                    !.model_version = "0.9.0",
                    !.last_trained = IsoFormat(-1)])

Without(data, key) == [k \in DOMAIN data \ {key} |-> data[k]]

\* the files the process may find at model_path when it starts: that snapshot, whole or
\* lacking one key, or bytes that are no pickle
ExternalFiles ==
    {Pickle(ForeignSnapshot), Garbage}
    \cup {Pickle(Without(ForeignSnapshot, key)) : key \in DOMAIN ForeignSnapshot}

\* the records handed to predict(): a row of the corpus, a row with a brand
\* the corpus lacks (Toyota, 9), one with a zero engine size, and one with a
\* model year after the current one
CarRecords ==
    {RawRow(1),
     [RawRow(2) EXCEPT !.brand = 9],
     [RawRow(2) EXCEPT !.engine_size = 0],
     [RawRow(2) EXCEPT !.year = BaseYear + 1]}

(* --------------------- the class, called in any order ----------------- *)
Assign(self) ==
    /\ model' = self.model
    /\ scaler' = self.scaler
    /\ label_encoders' = self.label_encoders
    /\ feature_names' = self.feature_names
    /\ metrics' = self.metrics
    /\ is_trained' = self.is_trained
    /\ model_version' = self.model_version
    /\ last_trained' = self.last_trained

\* the object's fields hold the values of self
Holds(self) ==
    /\ model = self.model
    /\ scaler = self.scaler
    /\ label_encoders = self.label_encoders
    /\ feature_names = self.feature_names
    /\ metrics = self.metrics
    /\ is_trained = self.is_trained
    /\ model_version = self.model_version
    /\ last_trained = self.last_trained

Outcome(out, input) ==
    [op |-> out.op, ok |-> out.ok, exc |-> out.exc, value |-> out.value, arg |-> input]

\* the variables the class specification leaves alone
Idle ==
    /\ pc = "class"
    /\ startup_log = <<>>
    /\ arg = NoneV
    /\ reader = NoneV
    /\ writer = NoneV

Init ==
    /\ Holds(NewObject)
    /\ disk \in {NoFile} \cup ExternalFiles
    /\ clock = 0
    /\ result = Outcome(Return("__init__", NoneV, NewObject), NoneV)
    /\ saved = NoneV
    /\ ncalls = 0
    /\ succeeded = FALSE
    /\ Idle

\* one more method call
Call ==
    /\ ncalls < MaxCalls
    /\ ncalls' = ncalls + 1

Construct ==
    /\ Call
    /\ Assign(NewObject)
    /\ result' = Outcome(Return("__init__", NoneV, NewObject), NoneV)
    /\ succeeded' = FALSE
    /\ UNCHANGED <<disk, clock, saved, start, arg, conc>>

Train ==
    /\ Call
    /\ \E fault \in TrainFaults :
        LET out == train(Self, clock, fault)
        IN /\ Assign(out.self)
           /\ result' = Outcome(out, NoneV)
           /\ succeeded' = (succeeded \/ out.ok)
           /\ UNCHANGED <<disk, clock, saved, start, arg, conc>>

Predict ==
    /\ Call
    /\ \E car_data \in CarRecords :
        LET out == predict(Self, car_data, clock)
        IN /\ Assign(out.self)
           /\ result' = Outcome(out, car_data)
           /\ UNCHANGED <<disk, clock, saved, succeeded, start, arg, conc>>

Save ==
    /\ Call
    /\ \E fault \in SaveFaults :
        LET r == save(Self, disk, fault)
        IN /\ Assign(r.out.self)
           /\ disk' = r.file
           /\ saved' = IF r.out.ok THEN [kind |-> "fields", self |-> Self]
                       ELSE IF r.file = disk THEN saved ELSE NoneV
           /\ result' = Outcome(r.out, NoneV)
           /\ UNCHANGED <<clock, succeeded, start, arg, conc>>

Load ==
    /\ Call
    /\ LET out == load(Self, disk)
       IN /\ Assign(out.self)
          /\ result' = Outcome(out, NoneV)
          /\ succeeded' = (succeeded \/ out.ok)
          /\ UNCHANGED <<disk, clock, saved, start, arg, conc>>

Tick ==
    /\ clock < MaxClock
    /\ clock' = clock + 1
    /\ UNCHANGED <<fields, disk, hist, start, arg, conc>>

Next == Construct \/ Train \/ Predict \/ Save \/ Load \/ Tick

Spec == Init /\ [][Next]_vars

(* ------------------------ claims about the class ---------------------- *)
\* the step is a call of op
Called(op) == ncalls' # ncalls /\ result'.op = op

\* C1: a train() that raises leaves every field of the object at the value it
\* had before the call.
C1_FailedTrainKeepsFields ==
    [][(Called("train") /\ ~result'.ok) => fields' = fields]_vars

\* C2: while no train() or load() of the object has returned, predict()
\* raises the untrained-model error for every record, returns nothing and
\* leaves the fields unchanged.
C2_PredictUntrainedRaises ==
    [][(Called("predict") /\ ~succeeded)
        => /\ ~result'.ok
           /\ result'.exc = "ValueError: Model not trained"
           /\ result'.value = NoneV
           /\ fields' = fields]_vars

\* a predict() was made on an object that never trained or loaded
C2_Witness == result.op = "predict" /\ ~succeeded /\ ~result.ok

\* C3: save() on an object that is not trained raises and writes nothing.
C3_SaveUntrainedRaises ==
    [][(Called("save") /\ ~is_trained) => (~result'.ok /\ disk' = disk)]_vars

\* C4: predict() changes no field of the object, whether it returns or
\* raises.
C4_PredictReadOnly ==
    [][Called("predict") => fields' = fields]_vars

\* a predict() returned for a record whose brand the encoder never saw
C4_Witness ==
    /\ result.op = "predict"
    /\ result.ok
    /\ result.arg.brand \notin Range(label_encoders["brand"].classes_)

\* C6: a load() of the file a save() wrote restores every field that was
\* saved, and predict() then returns what it returned on the saved fields,
\* for every record and every reference year.
C6_SaveLoadRoundTrip ==
    (result.op = "load" /\ result.ok /\ saved.kind = "fields")
    => /\ Self = saved.self
       /\ \A r \in CarRecords, t \in 0..MaxClock :
            predict(Self, r, t).value = predict(saved.self, r, t).value

\* a load() restored a trained model that a save() had written
C6_Witness ==
    /\ result.op = "load"
    /\ result.ok
    /\ saved.kind = "fields"
    /\ saved.self.is_trained
    /\ model.kind = "GBR"

\* the keys the specification names mandatory
SpecMandatory == {"model", "scaler", "label_encoders", "feature_names"}

\* C7: a load() of a snapshot lacking a mandatory key raises and leaves every
\* field of the object at the value it had before the call.
C7_IncompleteLoadKeepsFields ==
    [][(Called("load") /\ disk.kind = "pickle" /\ ~(SpecMandatory \subseteq DOMAIN disk.data))
        => (~result'.ok /\ fields' = fields)]_vars

(* ------------------ the confidence band, on its own ------------------- *)
\* the variables of the class that a function applied on its own leaves alone
Fresh ==
    /\ Holds(NewObject)
    /\ disk = NoFile
    /\ clock = 0
    /\ result = Outcome(Return("__init__", NoneV, NewObject), NoneV)
    /\ saved = NoneV
    /\ ncalls = 0
    /\ succeeded = FALSE
    /\ startup_log = <<>>
    /\ reader = NoneV
    /\ writer = NoneV

InitInterval ==
    /\ Fresh
    /\ pc = "interval"
    /\ arg \in [price : (-MaxPrice)..MaxPrice, mae : 0..MaxMae]

\* lines 205-209 applied to the estimate and the error drawn
ApplyInterval ==
    /\ result.op = "__init__"
    /\ result' = Outcome(Return("interval", ConfidenceInterval(arg.price, arg.mae), NewObject), arg)
    /\ UNCHANGED <<fields, env, saved, ncalls, succeeded, start, arg, conc>>

NextInterval == ApplyInterval

SpecInterval == InitInterval /\ [][NextInterval]_vars

\* C9: for every price estimate and every mean absolute error >= 0,
\* lower <= price <= upper and lower >= 0.
C9_IntervalBracketsPrice ==
    result.op = "interval"
    => /\ result.value.lower <= 100 * arg.price
       /\ 100 * arg.price <= result.value.upper
       /\ result.value.lower >= 0

\* C9 as amended: lower >= 0 and price <= upper for every price estimate,
\* lower is price - 1.96 mae where that is positive and 0 otherwise, and
\* lower <= price for every price estimate >= 0.
C9_IntervalBracketsNonNegativePrice ==
    result.op = "interval"
    => /\ result.value.lower >= 0
       /\ 100 * arg.price <= result.value.upper
       /\ result.value.upper = 100 * arg.price + 196 * arg.mae
       /\ result.value.lower >= 100 * arg.price - 196 * arg.mae
       /\ result.value.lower \in {0, 100 * arg.price - 196 * arg.mae}
       /\ (arg.price >= 0 => result.value.lower <= 100 * arg.price)

\* the band of a positive estimate smaller than 1.96 mae: the clamp acts
C9_Witness ==
    /\ result.op = "interval"
    /\ arg.price > 0
    /\ 100 * arg.price < 196 * arg.mae
    /\ result.value.lower = 0

(* ---------------------- preprocess, on its own ------------------------ *)
\* a frame of n rows whose brand and transmission columns list a, and whose
\* fuel_type and body_type columns list b
Frame(a, b) ==
    [i \in 1..Len(a) |->
        [RawRow(1) EXCEPT !.brand = a[i], !.transmission = a[i],
                          !.fuel_type = b[i], !.body_type = b[i]]]

\* the corpora handed to preprocess: up to MaxRows rows over MaxVal strings
EncCorpora ==
    UNION {{Frame(a, b) : a \in [1..n -> 1..MaxVal], b \in [1..n -> 1..MaxVal]} : n \in 1..MaxRows}

\* the records encoded at inference: strings of the vocabulary, one below
\* them all (0) and one above them all (MaxVal + 1)
EncRecords ==
    {[RawRow(1) EXCEPT !.brand = v, !.transmission = v,
                       !.fuel_type = MaxVal + 1 - v, !.body_type = MaxVal + 1 - v] :
        v \in 0..(MaxVal + 1)}

InitEnc ==
    /\ Fresh
    /\ pc = "preprocess"
    /\ arg \in {[kind |-> "frame", df |-> df] : df \in EncCorpora}

\* preprocess(df, is_training=True) on the corpus drawn
EncFit ==
    /\ result.op = "__init__"
    /\ LET pre == preprocess(arg.df, TRUE, label_encoders, CurrentYear(clock), 0)
       IN /\ label_encoders' = pre.encoders
          /\ result' = [op |-> "preprocess_fit", ok |-> pre.ok, exc |-> pre.exc,
                        value |-> [kind |-> "frame", df |-> pre.df], arg |-> NoneV]
    /\ UNCHANGED <<model, scaler, feature_names, metrics, is_trained, model_version,
                   last_trained, env, saved, ncalls, succeeded, start, arg, conc>>

\* preprocess(df, is_training=False) on one record, after the fit
EncTransform ==
    /\ result.op = "preprocess_fit"
    /\ \E rec \in EncRecords :
        LET pre == preprocess(<<rec>>, FALSE, label_encoders, CurrentYear(clock), 0)
        IN /\ label_encoders' = pre.encoders
           /\ result' = [op |-> "preprocess_transform", ok |-> pre.ok, exc |-> pre.exc,
                         value |-> [kind |-> "frame", df |-> pre.df], arg |-> rec]
    /\ UNCHANGED <<model, scaler, feature_names, metrics, is_trained, model_version,
                   last_trained, env, saved, ncalls, succeeded, start, arg, conc>>

NextEnc == EncFit \/ EncTransform

SpecEnc == InitEnc /\ [][NextEnc]_vars

Cols == Range(categorical_cols)
Seen(col) == Range(Column(arg.df, col))
Classes(col) == label_encoders[col].classes_
\* the code of value v in the table of col
CodeOf(col, v) == IndexOf(Classes(col), v) - 1

\* C10: the table of each categorical column lists the values of the corpus
\* in first-seen order; at inference a value of the corpus gets its own code,
\* and a value the corpus lacks gets, without error, the code of the value
\* the corpus lists first.
C10_FirstSeenCodes ==
    /\ result.op = "preprocess_fit"
       => \A col \in Cols : Classes(col) = FirstSeen(Column(arg.df, col))
    /\ result.op = "preprocess_transform"
       => /\ result.ok
          /\ \A col \in Cols :
               result.value.df[1][col] =
                   IF result.arg[col] \in Seen(col) THEN CodeOf(col, result.arg[col])
                   ELSE CodeOf(col, arg.df[1][col])

\* C10 as amended: the table of each categorical column lists the distinct
\* values of the corpus in ascending order, so the codes are dense and
\* zero-based in sorted order; the fit encodes each value of the corpus to
\* its position in the table; at inference a value of the corpus gets its own
\* code, and a value the corpus lacks gets, without error, code 0, the code
\* of the smallest value of the corpus.
C10_SortedCodes ==
    /\ result.op \in {"preprocess_fit", "preprocess_transform"}
       => \A col \in Cols :
            /\ Range(Classes(col)) = Seen(col)
            /\ \A i, j \in 1..Len(Classes(col)) : i < j => Classes(col)[i] < Classes(col)[j]
    /\ result.op = "preprocess_fit"
       => /\ result.ok
          /\ \A col \in Cols :
               /\ \A i \in 1..Len(arg.df) :
                    Classes(col)[result.value.df[i][col] + 1] = arg.df[i][col]
               /\ {result.value.df[i][col] : i \in 1..Len(arg.df)}
                      = 0..(Cardinality(Seen(col)) - 1)
    /\ result.op = "preprocess_transform"
       => /\ result.ok
          /\ \A col \in Cols :
               IF result.arg[col] \in Seen(col)
               THEN Classes(col)[result.value.df[1][col] + 1] = result.arg[col]
               ELSE /\ result.value.df[1][col] = 0
                    /\ Classes(col)[1] = SetMin(Seen(col))

\* a value the corpus lacks was encoded, after a fit on a corpus whose first
\* value is not its smallest
C10_Witness ==
    /\ result.op = "preprocess_transform"
    /\ result.arg.brand \notin Seen("brand")
    /\ arg.df[1].brand # SetMin(Seen("brand"))
    /\ result.value.df[1].brand = 0

(* ------------------------- the start-up script ------------------------ *)
\* os.path.exists(model_path)
Exists(file) == file.kind # "none"

AfterLoadFailureServe == "serving"

\* where the script goes when load() raises: the handler of lines 291-294
\* trains
AfterLoadFailure == "train"

Logged(op, ok) == Append(startup_log, [op |-> op, ok |-> ok])

InitStartup ==
    /\ Holds(NewObject)
    /\ disk \in {NoFile} \cup ExternalFiles
    /\ clock = 0
    /\ result = Outcome(Return("__init__", NoneV, NewObject), NoneV)
    /\ saved = NoneV
    /\ ncalls = 0
    /\ succeeded = FALSE
    /\ pc = "start"
    /\ startup_log = <<>>
    /\ arg = NoneV
    /\ reader = NoneV
    /\ writer = NoneV

\* lines 287-292: the file exists and load() is tried
StartupLoad ==
    /\ pc = "start"
    /\ Exists(disk)
    /\ LET out == load(Self, disk)
       IN /\ Assign(out.self)
          /\ result' = Outcome(out, NoneV)
          /\ succeeded' = out.ok
          /\ startup_log' = Logged("load", out.ok)
          /\ pc' = IF out.ok THEN "serving" ELSE AfterLoadFailure
    /\ UNCHANGED <<env, saved, ncalls, arg, conc>>

\* lines 295-296: no file
StartupNoFile ==
    /\ pc = "start"
    /\ ~Exists(disk)
    /\ pc' = "train"
    /\ UNCHANGED <<fields, env, hist, startup_log, arg, conc>>

\* lines 293 and 297: train(); an exception ends the process
StartupTrain ==
    /\ pc = "train"
    /\ \E fault \in TrainFaults :
        LET out == train(Self, clock, fault)
        IN /\ Assign(out.self)
           /\ result' = Outcome(out, NoneV)
           /\ succeeded' = (succeeded \/ out.ok)
           /\ startup_log' = Logged("train", out.ok)
           /\ pc' = IF out.ok THEN "save" ELSE "crashed"
    /\ UNCHANGED <<env, saved, ncalls, arg, conc>>

\* lines 294 and 298: save(model_path); an exception ends the process
StartupSave ==
    /\ pc = "save"
    /\ \E fault \in SaveFaults :
        LET r == save(Self, disk, fault)
        IN /\ Assign(r.out.self)
           /\ disk' = r.file
           /\ saved' = IF r.out.ok THEN [kind |-> "fields", self |-> Self]
                       ELSE IF r.file = disk THEN saved ELSE NoneV
           /\ result' = Outcome(r.out, NoneV)
           /\ startup_log' = Logged("save", r.out.ok)
           /\ pc' = IF r.out.ok THEN "serving" ELSE "crashed"
    /\ UNCHANGED <<clock, ncalls, succeeded, arg, conc>>

\* predict_price, from the call of ml_model.predict on: 200 with the
\* prediction, 400 on a ValueError, 500 on any other exception
ServePredict ==
    /\ pc = "serving"
    /\ \E car_data \in CarRecords :
        LET out == predict(Self, car_data, clock)
            status == IF out.ok THEN 200
                      ELSE IF out.exc \in {"ValueError", "ValueError: Model not trained"}
                      THEN 400 ELSE 500
        IN /\ Assign(out.self)
           /\ result' = [op |-> "predict_price", ok |-> out.ok, exc |-> out.exc,
                         value |-> [kind |-> "response", status |-> status,
                                    prediction |-> out.value],
                         arg |-> car_data]
    /\ UNCHANGED <<env, saved, ncalls, succeeded, start, arg, conc>>

TickStartup ==
    /\ clock < MaxClock
    /\ clock' = clock + 1
    /\ UNCHANGED <<fields, disk, hist, start, arg, conc>>

NextStartup ==
    StartupLoad \/ StartupNoFile \/ StartupTrain \/ StartupSave \/ ServePredict \/ TickStartup

SpecStartup == InitStartup /\ [][NextStartup]_vars

\* the object a train() at clock t leaves when it starts from a new object
FreshlyTrained(t) ==
    [TrainValues(t) @@ NewObject EXCEPT !.is_trained = TRUE, !.last_trained = IsoFormat(t)]

LoadFailed == [op |-> "load", ok |-> FALSE]
Trained == [op |-> "train", ok |-> TRUE]
Saved == [op |-> "save", ok |-> TRUE]

\* C8: a load() that raises at start-up does not end the process: train()
\* and then save() follow, and start-up ends with the object trained, holding
\* the model just trained; likewise when there is no file.
C8_StartupFallsBackToTraining ==
    /\ startup_log # <<>> /\ startup_log[Len(startup_log)] = LoadFailed => pc = "train"
    /\ pc = "crashed" => startup_log[Len(startup_log)].op \in {"train", "save"}
    /\ (pc = "serving" /\ startup_log # <<[op |-> "load", ok |-> TRUE]>>)
       => /\ startup_log \in {<<LoadFailed, Trained, Saved>>, <<Trained, Saved>>}
          /\ is_trained
          /\ \E t \in 0..clock : Self = FreshlyTrained(t)
          /\ disk = Pickle(SnapshotOf(Self))

\* start-up ended after a load() that raised
C8_Witness ==
    /\ pc = "serving"
    /\ startup_log = <<LoadFailed, Trained, Saved>>
    /\ is_trained

(* -------------- predict() beside train() or load(), by line ----------- *)
\* Two threads on the one object ml_model: one inside predict(), one inside
\* train() or load(). A step is one statement of the source.
ReaderIdle ==
    [pos |-> "idle", car_data |-> NoneV, df |-> <<>>, scaled |-> <<>>, price |-> 0,
     enc |-> EmptyDict, scaler |-> NoneV, model |-> NoneV, metrics |-> EmptyDict,
     ok |-> FALSE, exc |-> ""]
WriterIdle == [pos |-> "idle", op |-> "", k |-> 0, data |-> EmptyDict]

\* the object after a load() of the snapshot the earlier deployment left
ForeignLoaded == load(NewObject, Pickle(ForeignSnapshot)).self

InitConc ==
    /\ \E self \in {FreshlyTrained(0), ForeignLoaded} : Holds(self)
    /\ disk \in {Pickle(ForeignSnapshot), Pickle(SnapshotOf(FreshlyTrained(0)))}
    /\ clock \in 0..MaxClock
    /\ result = Outcome(Return("__init__", NoneV, NewObject), NoneV)
    /\ saved = NoneV
    /\ ncalls = 0
    /\ succeeded = TRUE
    /\ pc = "serving"
    /\ startup_log = <<>>
    /\ arg = NoneV
    /\ reader = ReaderIdle
    /\ writer = WriterIdle

ReaderRaise(exc) == [reader EXCEPT !.pos = "done", !.ok = FALSE, !.exc = exc]

\* line 196
ReaderCheck ==
    /\ reader.pos = "idle"
    /\ \E car_data \in CarRecords :
        reader' = IF is_trained
                  THEN [reader EXCEPT !.pos = "preprocess", !.car_data = car_data]
                  ELSE [ReaderRaise("ValueError: Model not trained") EXCEPT !.car_data = car_data]
    /\ UNCHANGED <<fields, env, hist, start, arg, writer>>

\* lines 200-201: the encoders are read
ReaderPreprocess ==
    /\ reader.pos = "preprocess"
    /\ LET pre == preprocess(<<reader.car_data>>, PredictIsTraining, label_encoders,
                             CurrentYear(clock), 0)
       IN /\ label_encoders' = pre.encoders
          /\ reader' = IF pre.ok
                       THEN [reader EXCEPT !.pos = "scale", !.df = pre.df,
                                           !.enc = label_encoders]
                       ELSE ReaderRaise(pre.exc)
    /\ UNCHANGED <<model, scaler, feature_names, metrics, is_trained, model_version,
                   last_trained, env, hist, start, arg, writer>>

\* line 202: the scaler is read
ReaderScale ==
    /\ reader.pos = "scale"
    /\ reader' = IF scaler.kind # "StandardScaler" THEN ReaderRaise("AttributeError")
                 ELSE IF ~scaler.fitted THEN ReaderRaise("NotFittedError")
                 ELSE IF HasInf(reader.df[1]) THEN ReaderRaise("ValueError")
                 ELSE [reader EXCEPT !.pos = "model", !.scaler = scaler,
                                     !.scaled = <<ScaleRow(scaler, reader.df[1])>>]
    /\ UNCHANGED <<fields, env, hist, start, arg, writer>>

\* line 203: the ensemble is read
ReaderModel ==
    /\ reader.pos = "model"
    /\ reader' = IF model.kind # "GBR" THEN ReaderRaise("AttributeError")
                 ELSE IF ~model.fitted THEN ReaderRaise("NotFittedError")
                 ELSE [reader EXCEPT !.pos = "metrics", !.model = model,
                                     !.price = GBRPredict(model, reader.scaled[1])]
    /\ UNCHANGED <<fields, env, hist, start, arg, writer>>

\* lines 205-224: the metrics are read and the result is built
ReaderMetrics ==
    /\ reader.pos = "metrics"
    /\ reader' = IF "mae" \notin DOMAIN metrics THEN ReaderRaise("KeyError")
                 ELSE [reader EXCEPT !.pos = "done", !.ok = TRUE, !.metrics = metrics]
    /\ UNCHANGED <<fields, env, hist, start, arg, writer>>

\* train() or load() is entered
WriterBegin ==
    /\ writer.pos = "idle"
    /\ \E op \in {"train", "load"} :
        writer' = [writer EXCEPT !.pos = "running", !.op = op, !.k = 1]
    /\ UNCHANGED <<fields, env, hist, start, arg, reader>>

\* the statements of train() that assign, in order: lines 152, 156, 162,
\* 165, 171, 177, 183, 184
TrainStatements == 8
TrainStatement(k, self, t) ==
    CASE k = 1 -> [self EXCEPT !.label_encoders =
                        preprocess(Corpus, TRUE, self.label_encoders, CurrentYear(t), 0).encoders]
      [] k = 2 -> [self EXCEPT !.feature_names = TrainCache[t].feature_names]
      [] k = 3 -> [self EXCEPT !.scaler = TrainCache[t].scaler]
      [] k = 4 -> [self EXCEPT !.model = UnfittedGBR]
      [] k = 5 -> [self EXCEPT !.model = TrainCache[t].model]
      [] k = 6 -> [self EXCEPT !.metrics = TrainCache[t].metrics]
      [] k = 7 -> [self EXCEPT !.is_trained = TRUE]
      [] k = 8 -> [self EXCEPT !.last_trained = IsoFormat(t)]

WriterTrain ==
    /\ writer.pos = "running"
    /\ writer.op = "train"
    /\ Assign(TrainStatement(writer.k, Self, clock))
    /\ writer' = IF writer.k = TrainStatements THEN [writer EXCEPT !.pos = "done"]
                 ELSE [writer EXCEPT !.k = writer.k + 1]
    /\ UNCHANGED <<env, hist, start, arg, reader>>

\* the keys load() assigns, in the order of lines 261-268
LoadKeys == MandatoryKeys \o <<"model_version", "last_trained">>

\* lines 258-259: the file is read
WriterLoadRead ==
    /\ writer.pos = "running"
    /\ writer.op = "load"
    /\ writer.data = EmptyDict
    /\ writer' = [writer EXCEPT !.data = disk.data]
    /\ UNCHANGED <<fields, env, hist, start, arg, reader>>

\* one of lines 261-268
WriterLoadAssign ==
    /\ writer.pos = "running"
    /\ writer.op = "load"
    /\ writer.data # EmptyDict
    /\ Assign([Self EXCEPT ![LoadKeys[writer.k]] = writer.data[LoadKeys[writer.k]]])
    /\ writer' = IF writer.k = Len(LoadKeys) THEN [writer EXCEPT !.pos = "done"]
                 ELSE [writer EXCEPT !.k = writer.k + 1]
    /\ UNCHANGED <<env, hist, start, arg, reader>>

NextConc ==
    \/ ReaderCheck \/ ReaderPreprocess \/ ReaderScale \/ ReaderModel \/ ReaderMetrics
    \/ WriterBegin \/ WriterTrain \/ WriterLoadRead \/ WriterLoadAssign

SpecConc == InitConc /\ [][NextConc]_vars

\* the states train() and load() can leave the object in here
WholeStates == {FreshlyTrained(t) : t \in 0..MaxClock} \cup {ForeignLoaded}

\* C5: what a predict() that returns has read (encoders, scaler, ensemble,
\* metrics) belongs to one state of the object, the one before the train()
\* or load() beside it or the one after.
C5_PredictReadsOneState ==
    (reader.pos = "done" /\ reader.ok)
    => \E s \in WholeStates :
          /\ reader.enc = s.label_encoders
          /\ reader.scaler = s.scaler
          /\ reader.model = s.model
          /\ reader.metrics = s.metrics
====
